---- MODULE Spec2Model ----
(***************************************************************************)
(* Model of src/render.rs of typst-bot: the byte-span to char-span mapper, *)
(* the Display implementation of SourceErrorsWithSource, the resolution    *)
(* policy determine_pixels_per_point and the render pipeline.              *)
(*                                                                         *)
(* A text is modelled by the UTF-8 widths of its characters: <<1, 2, 1>>   *)
(* is a three character text of four bytes such as "hél".                  *)
(*                                                                         *)
(* usize values are integers; a negative integer n stands for the wrapped  *)
(* value 2^64 + n (texts are far shorter than 2^63 bytes, so the two       *)
(* ranges never meet).                                                     *)
(***************************************************************************)
EXTENDS Integers, Sequences, FiniteSets, TLC

\* ------------------------------------------------------------------ bounds
\* Longest text, in characters.
MaxChars == 3
\* How far beyond the end of the text an input byte offset may lie.
MaxSlack == 2
\* Most diagnostics in one SourceErrorsWithSource.
MaxErrors == 2
\* Page lengths sampled next to 999 pt and to MAX_SIZE, in f32 steps.
NearSteps == 2
\* Most pages in a compiled document.
MaxPages == 3

VARIABLES
    overflow_checks, \* the build: TRUE when integer overflow panics (debug)
    pc,              \* what has been called, and how far it has got
    ret,             \* the value the call returned
    text,            \* the source text, as the UTF-8 widths of its chars
    arg,             \* the byte range (or, in start, the byte index) passed
    errors,          \* SourceErrorsWithSource.errors: byte span and ErrorPos
    next_error,      \* fmt: the index of the error the loop handles next
    written,         \* fmt: the report blocks written to the formatter
    page_size,       \* the page size passed to determine_pixels_per_point
    prev,            \* the size and the result of the call before this one
    compiled,        \* render: what typst::compile returns for the source
    more_pages,      \* render: the local more_pages
    pixels_per_point,\* render: the local pixels_per_point
    calls,           \* render: the calls made to the rasterizer and encoder
    image            \* render: the encoded image bytes, once there are any

spanVars == <<text, arg>>
fmtVars == <<errors, next_error, written>>
scaleVars == <<page_size, prev>>
renderVars == <<compiled, more_pages, pixels_per_point, calls, image>>

vars == <<overflow_checks, pc, ret, spanVars, fmtVars, scaleVars, renderVars>>

\* ------------------------------------------------------------------- texts
\* A char of a Rust str is encoded on 1 to 4 bytes.
Utf8Widths == 1..4

Texts == UNION {[1..n -> Utf8Widths] : n \in 0..MaxChars}

RECURSIVE SumWidths(_, _)
SumWidths(source, n) ==
    IF n = 0 THEN 0 ELSE source[n] + SumWidths(source, n - 1)

\* source.len(): the length in bytes.
ByteLen(source) == SumWidths(source, Len(source))

\* source.chars().count()
CharCount(source) == Len(source)

\* str::char_indices().enumerate(): for the k-th char (from 1), the byte it
\* starts at and its index (from 0). The end of the text is not yielded.
CharIndices(source) ==
    [k \in 1..Len(source) |->
        [first_byte |-> SumWidths(source, k - 1), char_index |-> k - 1]]

\* str::is_char_boundary
IsCharBoundary(source, b) ==
    \/ b = ByteLen(source)
    \/ \E k \in 1..Len(source) : CharIndices(source)[k].first_byte = b

\* &source[b..]: the chars from byte b on (b is a char boundary).
SliceFrom(source, b) ==
    LET kept == {k \in 1..Len(source) : CharIndices(source)[k].first_byte >= b}
    IN  SubSeq(source, Len(source) - Cardinality(kept) + 1, Len(source))

\* -------------------------------------------------------------- usize
\* a >= b on usize, a negative integer standing for 2^64 + itself.
UGe(a, b) ==
    IF (a < 0) = (b < 0) THEN a >= b ELSE a < 0

\* a - b in a build without overflow checks (wrapping).
WrappingSub(a, b) == a - b

\* ------------------------------------------------------------ CharIndex
NoneIndex == [tag |-> "None", first_byte |-> 0, char_index |-> 0]

SomeIndex(fb, ci) == [tag |-> "Some", first_byte |-> fb, char_index |-> ci]

\* impl Add for CharIndex
CharIndexAdd(self, other) ==
    SomeIndex(self.first_byte + other.first_byte,
              self.char_index + other.char_index)

\* The mapping with the char index taken to be the byte index.
ByteIndexAsCharIndex(source, byte_index) ==
    LET ci   == CharIndices(source)
        hits == {k \in 1..Len(source) : UGe(ci[k].first_byte, byte_index)}
    IN  IF hits = {} THEN NoneIndex
        ELSE LET k == CHOOSE h \in hits : \A o \in hits : h <= o
             IN  SomeIndex(ci[k].first_byte, ci[k].first_byte)

\* byte_index_to_char_index: the first char starting at or after byte_index.
ByteIndexToCharIndex(source, byte_index) ==
    LET ci   == CharIndices(source)
        hits == {k \in 1..Len(source) : UGe(ci[k].first_byte, byte_index)}
    IN  IF hits = {} THEN NoneIndex
        ELSE LET k == CHOOSE h \in hits : \A o \in hits : h <= o
             IN  SomeIndex(ci[k].first_byte, ci[k].char_index)

\* ---------------------------------------------------------------- f32
\* An f32 that is finite and not negative is [inf |-> FALSE, m, e], of value
\* m * 2^e: zero is m = 0, e = 0; any other has its 24 bit significand
\* 2^23 <= m < 2^24 (the sizes met are far from the subnormal range).
\* Operations round to nearest, ties to even, as IEEE 754 has them.
F32(m, e) == [inf |-> FALSE, m |-> m, e |-> e]

F32Zero == F32(0, 0)

F32Inf == [inf |-> TRUE, m |-> 0, e |-> 0]

Pow2(k) == 2 ^ k

RECURSIVE BitLen(_)
BitLen(v) == IF v = 0 THEN 0 ELSE 1 + BitLen(v \div 2)

\* The f32 nearest to v * 2^e (+ a fraction of 2^e below one half of the last
\* kept bit when sticky), for an integer 0 <= v < 2^31.
Round24(v, e, sticky) ==
    LET bits == BitLen(v)
    IN  IF v = 0 THEN F32Zero
        ELSE IF bits <= 24 THEN F32(v * Pow2(24 - bits), e - (24 - bits))
        ELSE LET k    == bits - 24
                 q    == v \div Pow2(k)
                 r    == v % Pow2(k)
                 half == Pow2(k - 1)
                 up   == r > half \/ (r = half /\ (sticky \/ q % 2 = 1))
                 m    == IF up THEN q + 1 ELSE q
             IN  IF m = Pow2(24) THEN F32(Pow2(23), e + k + 1)
                 ELSE F32(m, e + k)

\* a > b, for finite a and b.
F32Gt(a, b) ==
    IF a.m = 0 \/ b.m = 0 THEN a.m > 0 /\ b.m = 0
    ELSE a.e > b.e \/ (a.e = b.e /\ a.m > b.m)

\* a * b for a, b < 2^26, as [hi, lo] of value hi * 2^26 + lo, lo < 2^26
\* (the product of two significands does not fit a 32 bit integer).
WideMul(a, b) ==
    LET ah  == a \div Pow2(13)
        al  == a % Pow2(13)
        bh  == b \div Pow2(13)
        bl  == b % Pow2(13)
        mid == ah * bl + al * bh
        t   == al * bl + (mid % Pow2(13)) * Pow2(13)
    IN  [hi |-> ah * bh + mid \div Pow2(13) + t \div Pow2(26),
         lo |-> t % Pow2(26)]

WideLe(a, b) == a.hi < b.hi \/ (a.hi = b.hi /\ a.lo <= b.lo)

\* x * y
F32Mul(a, b) ==
    IF a.m = 0 \/ b.m = 0 THEN F32Zero
    ELSE LET p == WideMul(a.m, b.m)
         IN  Round24(p.hi * Pow2(4) + p.lo \div Pow2(22), a.e + b.e + 22,
                     p.lo % Pow2(22) # 0)

\* The largest r >= acc, built from the bits bit..0, with r * r <= n.
RECURSIVE SqrtBits(_, _, _)
SqrtBits(n, acc, bit) ==
    IF bit < 0 THEN acc
    ELSE LET c == acc + Pow2(bit)
         IN  IF WideLe(WideMul(c, c), n) THEN SqrtBits(n, c, bit - 1)
             ELSE SqrtBits(n, acc, bit - 1)

\* f32::sqrt
F32Sqrt(a) ==
    IF a.m = 0 THEN F32Zero
    ELSE LET even == a.e % 2 = 0
             n    == [hi |-> IF even THEN a.m ELSE 2 * a.m, lo |-> 0]
             e    == IF even THEN a.e ELSE a.e - 1
             r    == SqrtBits(n, 0, 25)
         IN  Round24(r, (e - 26) \div 2, WideMul(r, r) # n)

\* The largest q >= acc, built from the bits bit..0, with q * d <= n.
RECURSIVE DivBits(_, _, _, _)
DivBits(n, d, acc, bit) ==
    IF bit < 0 THEN acc
    ELSE LET c == acc + Pow2(bit)
         IN  IF WideLe(WideMul(c, d), n) THEN DivBits(n, d, c, bit - 1)
             ELSE DivBits(n, d, acc, bit - 1)

\* a / b, for a finite a > 0.
F32Div(a, b) ==
    IF b.m = 0 THEN F32Inf
    ELSE LET n == [hi |-> a.m \div 2, lo |-> (a.m % 2) * Pow2(25)]
             q == DivBits(n, b.m, 0, 25)
         IN  Round24(q, a.e - b.e - 25, WideMul(q, b.m) # n)

\* ------------------------------------------------- determine_pixels_per_point
\* A length (typst's Abs, an f64 of points) is an integer count of 2^-15 pt,
\* PerPt of them to the point: half the f32 step at MAX_SIZE, so that the cast
\* has lengths to round.
PerPt == Pow2(15)

\* size.x.to_pt() as f32
ToF32(len) == Round24(len, -15, FALSE)

\* const DESIRED_RESOLUTION: f32 = 1000.0;
DESIRED_RESOLUTION == 1000

\* const MAX_SIZE: f32 = 1000.0;
MAX_SIZE == 1000

PppOk(scale) ==
    [tag |-> "Ok", scale |-> scale, size |-> F32Zero, axis |-> "-"]

\* struct TooBig
TooBig(size, axis) ==
    [tag |-> "TooBig", scale |-> F32Zero, size |-> size, axis |-> axis]

\* The resolution policy with the height checked before the width.
DeterminePixelsPerPointYFirst(size) ==
    LET x == ToF32(size.x)
        y == ToF32(size.y)
    IN  IF F32Gt(y, Round24(MAX_SIZE, 0, FALSE)) THEN TooBig(y, "Y")
        ELSE IF F32Gt(x, Round24(MAX_SIZE, 0, FALSE)) THEN TooBig(x, "X")
        ELSE LET area == F32Mul(x, y)
             IN  PppOk(F32Div(Round24(DESIRED_RESOLUTION, 0, FALSE),
                              F32Sqrt(area)))

\* The resolution policy with the square root left out.
DeterminePixelsPerPointNoSqrt(size) ==
    LET x == ToF32(size.x)
        y == ToF32(size.y)
    IN  IF F32Gt(x, Round24(MAX_SIZE, 0, FALSE)) THEN TooBig(x, "X")
        ELSE IF F32Gt(y, Round24(MAX_SIZE, 0, FALSE)) THEN TooBig(y, "Y")
        ELSE LET area == F32Mul(x, y)
             IN  PppOk(F32Div(Round24(DESIRED_RESOLUTION, 0, FALSE), area))

\* determine_pixels_per_point
DeterminePixelsPerPoint(size) ==
    LET x == ToF32(size.x)
        y == ToF32(size.y)
    IN  IF F32Gt(x, Round24(MAX_SIZE, 0, FALSE)) THEN TooBig(x, "X")
        ELSE IF F32Gt(y, Round24(MAX_SIZE, 0, FALSE)) THEN TooBig(y, "Y")
        ELSE LET area == F32Mul(x, y)
             IN  PppOk(F32Div(Round24(DESIRED_RESOLUTION, 0, FALSE),
                              F32Sqrt(area)))

\* ------------------------------------------------------- byte_span_to_char_span
\* What a call returns, with what it evaluated on the way: sub tells whether
\* span.end - span.start was evaluated and on which operands, slice_at the
\* byte the suffix slice was taken at (-1: no slice taken).
SpanResult(tag, s, e, sub, lhs, rhs, at) ==
    [tag |-> tag, start |-> s, end |-> e,
     sub |-> sub, sub_lhs |-> lhs, sub_rhs |-> rhs, slice_at |-> at]

\* byte_span_to_char_span. checks: the build panics on integer overflow.
ByteSpanToCharSpan(source, span0, checks) ==
    LET span  == IF span0.start < span0.end
                 THEN [start |-> span0.end, end |-> span0.start]
                 ELSE span0
        start == ByteIndexToCharIndex(source, span.start)
    IN  IF start.tag = "None"
        THEN SpanResult("None", 0, 0, FALSE, 0, 0, -1)
        ELSE IF ~IsCharBoundary(source, start.first_byte)
        THEN SpanResult("Panic", 0, 0, FALSE, 0, 0, start.first_byte)
        ELSE IF checks /\ span.end < span.start
        THEN SpanResult("Panic", 0, 0, TRUE, span.end, span.start,
                        start.first_byte)
        ELSE
        LET rel == ByteIndexToCharIndex(SliceFrom(source, start.first_byte),
                                        WrappingSub(span.end, span.start))
        IN  IF rel.tag = "None"
            THEN SpanResult("None", 0, 0, TRUE, span.end, span.start,
                            start.first_byte)
            ELSE LET end == CharIndexAdd(rel, start)
                 IN  SpanResult("Some", start.char_index, end.char_index,
                                TRUE, span.end, span.start, start.first_byte)

\* ------------------------------------------------------ the span mapper
Offsets(source) == 0..(ByteLen(source) + MaxSlack)

NoRet == [tag |-> "NoRet"]

\* The variables of the operations that are not running.
NoFmt == errors = <<>> /\ next_error = 0 /\ written = <<>>

NoScale == page_size = [x |-> 0, y |-> 0] /\ prev = NoRet

NoRender ==
    /\ compiled = NoRet
    /\ more_pages = NoRet
    /\ pixels_per_point = NoRet
    /\ calls = <<>>
    /\ image = NoRet

InitSpan ==
    /\ overflow_checks \in BOOLEAN
    /\ text \in Texts
    /\ arg \in [start : Offsets(text), end : Offsets(text)]
    /\ pc = "ready"
    /\ ret = NoRet
    /\ NoFmt
    /\ NoScale
    /\ NoRender

\* A call of byte_index_to_char_index(text, arg.start).
CallByteIndexToCharIndex ==
    /\ pc = "ready"
    /\ pc' = "index_done"
    /\ ret' = ByteIndexToCharIndex(text, arg.start)
    /\ UNCHANGED <<overflow_checks, spanVars, fmtVars, scaleVars, renderVars>>

\* A call of byte_span_to_char_span(text, arg.start..arg.end).
CallByteSpanToCharSpan ==
    /\ pc = "ready"
    /\ pc' = "span_done"
    /\ ret' = ByteSpanToCharSpan(text, arg, overflow_checks)
    /\ UNCHANGED <<overflow_checks, spanVars, fmtVars, scaleVars, renderVars>>

NextSpan == CallByteIndexToCharIndex \/ CallByteSpanToCharSpan

SpecSpan == InitSpan /\ [][NextSpan]_vars

\* ------------------------------------- Display for SourceErrorsWithSource
\* typst::syntax::ErrorPos
ErrorPositions == {"Full", "Start", "End"}

\* What self.source.range(error.span) yields: the byte range of a syntax
\* node of the source, start <= end <= len, both on char boundaries.
NodeRanges(source) ==
    {r \in [start : 0..ByteLen(source), end : 0..ByteLen(source)] :
        /\ r.start <= r.end
        /\ IsCharBoundary(source, r.start)
        /\ IsCharBoundary(source, r.end)}

Diagnostics(source) ==
    [start : 0..ByteLen(source), end : 0..ByteLen(source), pos : ErrorPositions]

SeqsUpTo(S, n) == UNION {[1..k -> S] : k \in 0..n}

\* The span the report is anchored to, by error.pos.
PosSpan(error) ==
    CASE error.pos = "Full"  -> [start |-> error.start, end |-> error.end]
      [] error.pos = "Start" -> [start |-> error.start, end |-> error.start]
      [] error.pos = "End"   -> [start |-> error.end, end |-> error.end]

InitFmt ==
    /\ overflow_checks \in BOOLEAN
    /\ text \in Texts
    /\ errors \in SeqsUpTo({d \in Diagnostics(text) :
                    [start |-> d.start, end |-> d.end] \in NodeRanges(text)},
                           MaxErrors)
    /\ arg = [start |-> 0, end |-> 0]
    /\ pc = "fmt"
    /\ ret = NoRet
    /\ next_error = 1
    /\ written = <<>>
    /\ NoScale
    /\ NoRender

\* One turn of the loop over self.errors: the span is mapped, and the
\* report built on it is written to the formatter; a span that does not map
\* ends fmt with Err(fmt::Error).
FmtError ==
    /\ pc = "fmt"
    /\ next_error <= Len(errors)
    /\ LET span == ByteSpanToCharSpan(text, PosSpan(errors[next_error]),
                                      overflow_checks)
       IN  CASE span.tag = "Some" ->
                  /\ written' = Append(written,
                                       [error |-> next_error,
                                        offset |-> span.start,
                                        label_start |-> span.start,
                                        label_end |-> span.end])
                  /\ next_error' = next_error + 1
                  /\ UNCHANGED <<pc, ret>>
             [] span.tag = "None" ->
                  /\ pc' = "fmt_done"
                  /\ ret' = [tag |-> "Err"]
                  /\ UNCHANGED <<written, next_error>>
             [] span.tag = "Panic" ->
                  /\ pc' = "fmt_done"
                  /\ ret' = [tag |-> "Panic"]
                  /\ UNCHANGED <<written, next_error>>
    /\ UNCHANGED <<overflow_checks, spanVars, errors, scaleVars, renderVars>>

\* The loop is over: Ok(()).
FmtReturn ==
    /\ pc = "fmt"
    /\ next_error > Len(errors)
    /\ pc' = "fmt_done"
    /\ ret' = [tag |-> "Ok"]
    /\ UNCHANGED <<overflow_checks, spanVars, fmtVars, scaleVars, renderVars>>

NextFmt == FmtError \/ FmtReturn

SpecFmt == InitFmt /\ [][NextFmt]_vars

\* ------------------------------------------------- the resolution policy
\* Page lengths: none, ordinary ones, f32 neighbours just below the cap where
\* the quotient is coarser than the lengths, and lengths around the cap that
\* the cast to f32 has to round.
SampleLengths ==
    {0} \cup {k * PerPt : k \in {250, 500, MAX_SIZE + 1}}
        \cup {(MAX_SIZE - 1) * PerPt + 2 * j : j \in 0..NearSteps}
        \cup {MAX_SIZE * PerPt + j : j \in 0..NearSteps}

InitScale ==
    /\ overflow_checks \in BOOLEAN
    /\ page_size \in [x : SampleLengths, y : SampleLengths]
    /\ prev = NoRet
    /\ pc = "ready"
    /\ ret = NoRet
    /\ text = <<>>
    /\ arg = [start |-> 0, end |-> 0]
    /\ NoFmt
    /\ NoRender

\* A call of determine_pixels_per_point(page_size).
CallDeterminePixelsPerPoint ==
    /\ pc = "ready"
    /\ pc' = "scale_done"
    /\ ret' = DeterminePixelsPerPoint(page_size)
    /\ UNCHANGED <<overflow_checks, spanVars, fmtVars, scaleVars, renderVars>>

\* The next page to find the scale of (one call is remembered).
NextPageSize ==
    /\ pc = "scale_done"
    /\ prev = NoRet
    /\ prev' = [tag |-> "Prev", size |-> page_size, ret |-> ret]
    /\ page_size' \in [x : SampleLengths, y : SampleLengths]
    /\ pc' = "ready"
    /\ ret' = NoRet
    /\ UNCHANGED <<overflow_checks, spanVars, fmtVars, renderVars>>

NextScale == CallDeterminePixelsPerPoint \/ NextPageSize

SpecScale == InitScale /\ [][NextScale]_vars

\* ------------------------------------------------------------- render
\* Page lengths of compiled documents: within the cap, over it by less than
\* the cast to f32 keeps, and over it.
RenderLengths == {500 * PerPt, MAX_SIZE * PerPt + 1, (MAX_SIZE + 1) * PerPt}

\* What typst::compile(&world) returns: the errors, or a document, here the
\* sizes of its pages.
CompileResults ==
    {[tag |-> "Err", pages |-> <<>>]}
        \cup {[tag |-> "Ok", pages |-> d] :
                d \in SeqsUpTo([x : RenderLengths, y : RenderLengths], MaxPages)}

\* The subtraction left out.
SaturatingSubNothing(a, b) == a

\* usize::saturating_sub
SaturatingSub(a, b) == IF a >= b THEN a - b ELSE 0

\* NonZeroUsize::new
NonZeroUsizeNew(n) ==
    IF n = 0 THEN [tag |-> "None", n |-> 0] ELSE [tag |-> "Some", n |-> n]

\* Result<Output, Error>
RenderErr(tag, too_big) ==
    [tag |-> tag, too_big |-> too_big, image |-> NoRet, more_pages |-> NoRet]

Output(bytes, more) ==
    [tag |-> "Output", too_big |-> NoRet, image |-> bytes, more_pages |-> more]

InitRender ==
    /\ overflow_checks \in BOOLEAN
    /\ pc = "render"
    /\ ret = NoRet
    /\ text = <<>>
    /\ arg = [start |-> 0, end |-> 0]
    /\ NoFmt
    /\ NoScale
    /\ NoRender

\* typst::compile(&world).map_err(..)?
RenderCompile ==
    /\ pc = "render"
    /\ \E result \in CompileResults :
        /\ compiled' = result
        /\ IF result.tag = "Err"
           THEN pc' = "render_done" /\ ret' = RenderErr("Source", NoRet)
           ELSE pc' = "first_page" /\ UNCHANGED ret
    /\ UNCHANGED <<overflow_checks, spanVars, fmtVars, scaleVars,
                   more_pages, pixels_per_point, calls, image>>

\* document.pages.get(0).ok_or(Error::NoPages)?, then more_pages.
RenderFirstPage ==
    /\ pc = "first_page"
    /\ IF Len(compiled.pages) = 0
       THEN /\ pc' = "render_done"
            /\ ret' = RenderErr("NoPages", NoRet)
            /\ UNCHANGED more_pages
       ELSE /\ pc' = "scale"
            /\ more_pages' =
                   NonZeroUsizeNew(SaturatingSub(Len(compiled.pages), 1))
            /\ UNCHANGED ret
    /\ UNCHANGED <<overflow_checks, spanVars, fmtVars, scaleVars,
                   compiled, pixels_per_point, calls, image>>

\* The size check skipped: the page is rasterized whatever its size.
RenderScaleUnchecked ==
    /\ pc = "scale"
    /\ pc' = "rasterize"
    /\ pixels_per_point' = DeterminePixelsPerPoint(compiled.pages[1]).scale
    /\ UNCHANGED <<overflow_checks, spanVars, fmtVars, scaleVars,
                   compiled, more_pages, calls, image, ret>>

\* determine_pixels_per_point(frame.size())?, frame being page 0.
RenderScale ==
    /\ pc = "scale"
    /\ LET ppp == DeterminePixelsPerPoint(compiled.pages[1])
       IN  IF ppp.tag = "TooBig"
           THEN /\ pc' = "render_done"
                /\ ret' = RenderErr("TooBig", ppp)
                /\ UNCHANGED pixels_per_point
           ELSE /\ pc' = "rasterize"
                /\ pixels_per_point' = ppp.scale
                /\ UNCHANGED ret
    /\ UNCHANGED <<overflow_checks, spanVars, fmtVars, scaleVars,
                   compiled, more_pages, calls, image>>

\* typst::export::render(frame, pixels_per_point, fill)
RenderRasterize ==
    /\ pc = "rasterize"
    /\ pc' = "encode"
    /\ calls' = Append(calls, [op |-> "render", page |-> 0,
                               scale |-> pixels_per_point])
    /\ UNCHANGED <<overflow_checks, spanVars, fmtVars, scaleVars,
                   compiled, more_pages, pixels_per_point, image, ret>>

\* image::write_buffer_with_format(..).unwrap(), then Ok(Output {..}).
RenderEncode ==
    /\ pc = "encode"
    /\ pc' = "render_done"
    /\ calls' = Append(calls, [op |-> "encode", page |-> 0,
                               scale |-> pixels_per_point])
    /\ image' = [tag |-> "Png", page |-> 0]
    /\ ret' = Output(image', more_pages)
    /\ UNCHANGED <<overflow_checks, spanVars, fmtVars, scaleVars,
                   compiled, more_pages, pixels_per_point>>

NextRender ==
    \/ RenderCompile
    \/ RenderFirstPage
    \/ RenderScale
    \/ RenderRasterize
    \/ RenderEncode

SpecRender == InitRender /\ [][NextRender]_vars

\* ---------------------------------------------------------------- claims
\* The bytes beyond the first of the chars that start before byte b.
ExtraBytesBefore(source, b) ==
    LET ci == CharIndices(source)
        before == {k \in 1..Len(source) : ci[k].first_byte < b}
    IN  SumWidths(source, Cardinality(before)) - Cardinality(before)

InText(source, b) == b <= ByteLen(source) /\ IsCharBoundary(source, b)

\* C1: for a byte range start <= end on char boundaries of the text,
\* byte_span_to_char_span returns Some(cs..ce), cs and ce being start and end
\* less the extra bytes of the multi-byte chars before each.
C1_SpanMapped ==
    (pc = "span_done" /\ arg.start <= arg.end
        /\ InText(text, arg.start) /\ InText(text, arg.end))
    => /\ ret.tag = "Some"
       /\ ret.start = arg.start - ExtraBytesBefore(text, arg.start)
       /\ ret.end = arg.end - ExtraBytesBefore(text, arg.end)

\* The first char boundary at or after byte b, the end of the text included.
BoundaryAtOrAfter(source, b) ==
    CHOOSE c \in b..ByteLen(source) :
        IsCharBoundary(source, c)
        /\ \A d \in b..ByteLen(source) : IsCharBoundary(source, d) => c <= d

\* C2: byte_index_to_char_index yields None exactly when the byte offset is
\* beyond the byte length of the text; an offset up to the byte length
\* resolves to the first char boundary at or after it.
C2_NoneIffBeyond ==
    pc = "index_done"
    => /\ (ret.tag = "None") <=> (arg.start > ByteLen(text))
       /\ arg.start <= ByteLen(text)
            => ret.first_byte = BoundaryAtOrAfter(text, arg.start)

\* C7: a char span returned as Some(start..end) has end >= start and both
\* offsets at most the number of chars of the text.
C7_SpanWithinText ==
    (pc = "span_done" /\ ret.tag = "Some")
    => /\ ret.end >= ret.start
       /\ ret.start <= CharCount(text)
       /\ ret.end <= CharCount(text)

\* A span is returned for an offset that follows a multi-byte char.
C7_Witness ==
    /\ pc = "span_done"
    /\ ret.tag = "Some"
    /\ ret.start >= 2
    /\ ret.start < arg.start

\* C10: byte_span_to_char_span returns Some or None without a fault: the
\* subtraction span.end - span.start is only evaluated with
\* span.end >= span.start, and the suffix slice starts at a char boundary.
C10_NoFault ==
    pc = "span_done"
    => /\ ret.tag \in {"Some", "None"}
       /\ ret.sub => ret.sub_lhs >= ret.sub_rhs
       /\ ret.slice_at # -1 => InText(text, ret.slice_at)

\* C5: when the span of a diagnostic does not map, fmt fails with nothing
\* written to the formatter, the diagnostics before the failing one included.
C5_NoPartialOutput ==
    (pc = "fmt_done" /\ ret.tag = "Err") => written = <<>>

\* The char span a diagnostic is to be labelled with.
ExpectedLabel(source, error) ==
    LET span == PosSpan(error)
    IN  [start |-> span.start - ExtraBytesBefore(source, span.start),
         end |-> span.end - ExtraBytesBefore(source, span.end)]

\* C6: diagnostics whose byte spans lie within the text are all formatted,
\* each labelled with the char span of its whole range (Full), of its start
\* (Start) or of its end (End).
C6_LabelledByKind ==
    pc = "fmt_done"
    => /\ ret.tag = "Ok"
       /\ Len(written) = Len(errors)
       /\ \A k \in 1..Len(written) :
            /\ written[k].error = k
            /\ written[k].label_start = ExpectedLabel(text, errors[k]).start
            /\ written[k].label_end = ExpectedLabel(text, errors[k]).end

\* The length (in units of 1/PerPt pt) an f32 of points stands for.
LengthOf(f) ==
    IF f.e >= -15 THEN f.m * Pow2(f.e + 15) ELSE f.m \div Pow2(-15 - f.e)

\* The f32 step at f, as a length.
StepOf(f) == Pow2(f.e + 15)

\* f is an f32 nearest to the length len (len >= 256 pt).
NearestF32(f, len) ==
    /\ LengthOf(f) - len <= StepOf(f) - (LengthOf(f) - len)
    /\ len - LengthOf(f) <= StepOf(f) - (len - LengthOf(f))

\* MAX_SIZE as a length.
Cap == MAX_SIZE * PerPt

\* Half the f32 step at MAX_SIZE (2^-15 pt), as a length: what the cast to
\* f32 rounds away.
HalfStepAtCap == PerPt \div Pow2(15)

\* C3 as stated: determine_pixels_per_point fails if and only if the width or
\* the height is above 1000 pt; the failure reports X with size = width
\* whenever the width is above 1000 pt, and Y with size = height only when
\* the width is not and the height is.
C3_FailsIffOver ==
    pc = "scale_done"
    => /\ (ret.tag = "TooBig") <=> (page_size.x > Cap \/ page_size.y > Cap)
       /\ page_size.x > Cap
            => (ret.axis = "X" /\ LengthOf(ret.size) = page_size.x)
       /\ (page_size.x <= Cap /\ page_size.y > Cap)
            => (ret.axis = "Y" /\ LengthOf(ret.size) = page_size.y)

\* C3, amended: determine_pixels_per_point fails if and only if the width or
\* the height, rounded to f32, is above 1000 pt, that is when it is above
\* 1000 pt by more than 2^-15 pt; (1000, 1000) succeeds. The failure reports
\* X, with the width rounded to f32 as size, whenever the width is that
\* large, and Y, with the rounded height, only when the width is not and the
\* height is.
C3_FailsIffRoundedOver ==
    pc = "scale_done"
    => LET xOver == page_size.x > Cap + HalfStepAtCap
           yOver == page_size.y > Cap + HalfStepAtCap
       IN  /\ (ret.tag = "TooBig") <=> (xOver \/ yOver)
           /\ xOver => (ret.axis = "X" /\ NearestF32(ret.size, page_size.x))
           /\ (~xOver /\ yOver)
                => (ret.axis = "Y" /\ NearestF32(ret.size, page_size.y))
           /\ ret.tag = "TooBig"
                => F32Gt(ret.size, Round24(MAX_SIZE, 0, FALSE))

\* A page over the cap on both axes is reported as an X failure.
C3_Witness ==
    /\ pc = "scale_done"
    /\ page_size.x > Cap + HalfStepAtCap
    /\ page_size.y > Cap + HalfStepAtCap
    /\ ret.tag = "TooBig"
    /\ ret.axis = "X"

\* ---- whole numbers beyond 32 bits, as sequences of limbs, lowest first
Limb == Pow2(13)

RECURSIVE BigFromInt(_)
BigFromInt(n) ==
    IF n = 0 THEN <<>> ELSE <<n % Limb>> \o BigFromInt(n \div Limb)

RECURSIVE BigNorm(_)
BigNorm(a) ==
    IF a # <<>> /\ a[Len(a)] = 0 THEN BigNorm(SubSeq(a, 1, Len(a) - 1)) ELSE a

RECURSIVE BigAddC(_, _, _)
BigAddC(a, b, c) ==
    IF a = <<>> /\ b = <<>> THEN BigFromInt(c)
    ELSE LET t == (IF a = <<>> THEN 0 ELSE Head(a))
                  + (IF b = <<>> THEN 0 ELSE Head(b)) + c
         IN  <<t % Limb>> \o BigAddC(IF a = <<>> THEN a ELSE Tail(a),
                                     IF b = <<>> THEN b ELSE Tail(b),
                                     t \div Limb)

BigAdd(a, b) == BigAddC(a, b, 0)

RECURSIVE BigMulLimb(_, _, _)
BigMulLimb(a, d, c) ==
    IF a = <<>> THEN BigFromInt(c)
    ELSE LET t == Head(a) * d + c
         IN  <<t % Limb>> \o BigMulLimb(Tail(a), d, t \div Limb)

RECURSIVE BigMul(_, _)
BigMul(a, b) ==
    IF b = <<>> THEN <<>>
    ELSE BigAdd(BigMulLimb(a, Head(b), 0), <<0>> \o BigMul(a, Tail(b)))

BigPow2(k) ==
    [i \in 1..(k \div 13 + 1) |->
        IF i = k \div 13 + 1 THEN Pow2(k % 13) ELSE 0]

RECURSIVE BigLeN(_, _)
BigLeN(a, b) ==
    IF Len(a) # Len(b) THEN Len(a) < Len(b)
    ELSE IF a = <<>> THEN TRUE
    ELSE IF a[Len(a)] # b[Len(b)] THEN a[Len(a)] < b[Len(b)]
    ELSE BigLeN(SubSeq(a, 1, Len(a) - 1), SubSeq(b, 1, Len(b) - 1))

BigLe(a, b) == BigLeN(BigNorm(a), BigNorm(b))

\* scale^2 * width * height and DESIRED_RESOLUTION^2, both in units of
\* 2^(2 * scale.e - 30) (the scale of a sampled page has 2 * scale.e < 30).
PixelCount(scale, sz) ==
    BigMul(BigMul(BigFromInt(scale.m), BigFromInt(scale.m)),
           BigMul(BigFromInt(sz.x), BigFromInt(sz.y)))

PixelBudget(scale) ==
    BigMul(BigFromInt(DESIRED_RESOLUTION * DESIRED_RESOLUTION),
           BigPow2(30 - 2 * scale.e))

\* scale^2 * area = DESIRED_RESOLUTION^2
ExactBudget(scale, sz) ==
    /\ ~scale.inf
    /\ BigNorm(PixelCount(scale, sz)) = BigNorm(PixelBudget(scale))

\* scale^2 * area is DESIRED_RESOLUTION^2 to within 2^-21 of it.
NearBudget(scale, sz) ==
    LET count  == BigMul(PixelCount(scale, sz), BigPow2(21))
        budget == BigMul(PixelBudget(scale), BigPow2(21))
        slack  == PixelBudget(scale)
    IN  /\ ~scale.inf
        /\ BigLe(count, BigAdd(budget, slack))
        /\ BigLe(budget, BigAdd(count, slack))

\* a <= b on f32, +inf included.
F32Le(a, b) == b.inf \/ (~a.inf /\ ~F32Gt(a, b))

SameAspectRatio(s, t) ==
    WideMul(s.x, t.y) = WideMul(t.x, s.y)

\* The area of s is below that of t.
SmallerArea(s, t) ==
    LET a == WideMul(s.x, s.y)
        b == WideMul(t.x, t.y)
    IN  WideLe(a, b) /\ a # b

\* The page before this one has the same aspect ratio and a smaller area,
\* and both have a scale.
GrewInProportion ==
    /\ pc = "scale_done"
    /\ ret.tag = "Ok"
    /\ prev # NoRet
    /\ prev.ret.tag = "Ok"
    /\ SameAspectRatio(prev.size, page_size)
    /\ SmallerArea(prev.size, page_size)

\* C9 as stated: for a page within the cap the scale satisfies
\* scale^2 * (width * height) = DESIRED_RESOLUTION^2, and it is strictly
\* decreasing in the page area for a fixed aspect ratio. (Stated for the
\* pages of non-zero area, where DESIRED_RESOLUTION / sqrt(area) is defined.)
C9_ExactBudgetStrictlyDecreasing ==
    /\ (pc = "scale_done" /\ ret.tag = "Ok"
            /\ page_size.x # 0 /\ page_size.y # 0)
        => ExactBudget(ret.scale, page_size)
    /\ GrewInProportion
        => (F32Le(ret.scale, prev.ret.scale) /\ ret.scale # prev.ret.scale)

\* C9, amended: for a page within the cap and of non-zero area the scale is
\* the f32 result of DESIRED_RESOLUTION / sqrt(width * height), for which
\* scale^2 * (width * height) is DESIRED_RESOLUTION^2 to within a relative
\* error of 2^-21 (the scale of (500, 500) is exactly 2.0); a page of zero
\* area gets the scale +inf; and the scale does not increase with the page
\* area for a fixed aspect ratio.
C9_NearBudgetNotIncreasing ==
    /\ (pc = "scale_done" /\ ret.tag = "Ok")
        => /\ (page_size.x = 0 \/ page_size.y = 0) => ret.scale = F32Inf
           /\ (page_size.x # 0 /\ page_size.y # 0)
                => NearBudget(ret.scale, page_size)
           /\ page_size = [x |-> 500 * PerPt, y |-> 500 * PerPt]
                => ret.scale = Round24(2, 0, FALSE)
    /\ GrewInProportion => F32Le(ret.scale, prev.ret.scale)

\* A larger page of the same aspect ratio gets a smaller scale, one that
\* f32 cannot hold exactly.
C9_Witness ==
    /\ GrewInProportion
    /\ ret.scale # prev.ret.scale
    /\ NearBudget(ret.scale, page_size)
    /\ ~ExactBudget(ret.scale, page_size)

\* The page, as determine_pixels_per_point sees it, is over the cap.
OverCap(sz) == DeterminePixelsPerPoint(sz).tag = "TooBig"

\* C4: a render ends in one outcome, decided in order: the diagnostics if
\* the compilation fails, else NoPages if there is no page, else TooBig if
\* page 0 is over the size cap, else an Output; the rasterizer and the
\* encoder are called only once all of that has succeeded, and no image
\* bytes exist on a failing path.
C4_OneOutcomeInOrder ==
    LET ok     == compiled.tag = "Ok"
        paged  == ok /\ Len(compiled.pages) > 0
        fits   == paged /\ ~OverCap(compiled.pages[1])
    IN  /\ pc \in {"render", "first_page", "scale", "rasterize", "encode",
                  "render_done"}
        /\ pc # "render_done" => ret = NoRet
        /\ pc = "render_done"
            => /\ ret.tag \in {"Source", "NoPages", "TooBig", "Output"}
               /\ (ret.tag = "Source") <=> compiled.tag = "Err"
               /\ (ret.tag = "NoPages") <=> (ok /\ ~paged)
               /\ (ret.tag = "TooBig") <=> (paged /\ ~fits)
               /\ (ret.tag = "Output") <=> fits
               /\ ret.tag = "TooBig"
                    => ret.too_big = DeterminePixelsPerPoint(compiled.pages[1])
               /\ ret.tag # "Output"
                    => (calls = <<>> /\ image = NoRet /\ ret.image = NoRet)
               /\ ret.tag = "Output"
                    => (Len(calls) = 2 /\ image # NoRet /\ ret.image = image)
        /\ calls # <<>>
            => /\ fits
               /\ calls[1].op = "render"
               /\ Len(calls) > 1 => (Len(calls) = 2 /\ calls[2].op = "encode")
        /\ image # NoRet => Len(calls) = 2

\* A document whose first page is over the cap ends in TooBig, with no call
\* made and no image, whatever its other pages.
C4_Witness ==
    /\ pc = "render_done"
    /\ ret.tag = "TooBig"
    /\ Len(compiled.pages) > 1
    /\ ~OverCap(compiled.pages[2])
    /\ calls = <<>>

\* The more_pages of a document of n >= 1 pages.
MorePagesOf(n) ==
    IF n > 1 THEN [tag |-> "Some", n |-> n - 1] ELSE [tag |-> "None", n |-> 0]

\* C8: a document of n pages that compiled gives NoPages when n = 0,
\* more_pages = None when n = 1 and Some(n - 1) when n > 1, never Some(0);
\* only page 0 is rasterized.
C8_MorePages ==
    LET n == Len(compiled.pages)
    IN  /\ (pc = "render_done" /\ compiled.tag = "Ok" /\ n = 0)
            => ret.tag = "NoPages"
        /\ (pc = "render_done" /\ ret.tag = "Output")
            => (ret.more_pages = MorePagesOf(n) /\ n >= 1)
        /\ more_pages # NoRet
            => /\ more_pages = MorePagesOf(n)
               /\ more_pages # [tag |-> "Some", n |-> 0]
        /\ \A k \in 1..Len(calls) : calls[k].op = "render" => calls[k].page = 0

\* A document of three pages is rendered with more_pages = Some(2).
C8_Witness ==
    /\ pc = "render_done"
    /\ ret.tag = "Output"
    /\ Len(compiled.pages) = 3
    /\ ret.more_pages = [tag |-> "Some", n |-> 2]

====
